---- MODULE Spec2Model ----
(***************************************************************************)
(* Model of the two scripts of the repository:                             *)
(*   plot_reward.py          - reads progress.csv logs, saves reward plots *)
(*   cavandlight_shixiong.py - assembles a two-policy PPO experiment       *)
(* A Python string that is inspected character by character (a path, an    *)
(* agent identifier) is a sequence of one-character strings; the two CJK   *)
(* characters of the directory names are written by their code points.     *)
(* A string that is only compared as a whole (a column name, a dictionary  *)
(* key) is a TLA+ string.                                                  *)
(***************************************************************************)
EXTENDS Integers, Sequences, FiniteSets, TLC

\* ------------------------------------------------------------------ bounds
\* largest number of data rows of a progress.csv
MaxRows == 2
\* longest PATH argument of a direct PlotAll call
MaxPathLen == 3
\* longest agent identifier handed to the policy-mapping rule
MaxIdLen == 4
\* largest grid dimension and per-edge car count tried besides the script's own
MaxGrid == 2
MaxCars == 1

\* ===================================================== plot_reward.py ====
VARIABLES paths, i, pc, dataPath, logfile, df, fig, images, saves, reads, calls, err

plotVars == <<paths, i, pc, dataPath, logfile, df, fig, images, saves, reads, calls, err>>

\* ============================================ cavandlight_shixiong.py ====
VARIABLES n_rows, n_columns, num_cars_left, num_cars_right, num_cars_top, num_cars_bot,
          epc, tot_cars, vehs, net_params, flow_params, config, factory_params,
          registered, test_env, trials, id_source, agent_id, assigned

gridVars == <<n_rows, n_columns, num_cars_left, num_cars_right, num_cars_top, num_cars_bot>>

expVars == <<gridVars, epc, tot_cars, vehs, net_params, flow_params, config, factory_params,
             registered, test_env, trials, id_source, agent_id, assigned>>

vars == <<plotVars, expVars>>

\* ---------------------------------------------------------------- strings
\* Python `sub in s`
In(sub, s) ==
    \E k \in 0..(Len(s) - Len(sub)) : SubSeq(s, k + 1, k + Len(sub)) = sub

\* the literal prefix of dataPath
BasePath ==
    <<"/", "h", "o", "m", "e", "/", "g", "/", "s", "o", "f", "t", "w", "a", "r", "e",
      "/", "p", "y", "c", "h", "a", "r", "m", "/", "p", "r", "o", "j", "e", "c", "t", "s",
      "/", "f", "l", "o", "w", "-", "S", "E", "U", "/", "w", "o", "r", "k", "p", "l", "a",
      "c", "e", "/", "f", "i", "n", "a", "l", "/">>

EXP_TAG == <<"f", "i", "x", "e", "d", "_", "t", "i", "m", "e", "_", "p", "p", "o">>

\* FILE_PATH = first_PATH + "/" + "progress.csv"
FILE_PATH(first_PATH) ==
    first_PATH \o <<"/">> \o <<"p", "r", "o", "g", "r", "e", "s", "s", ".", "c", "s", "v">>

\* the three scope prefixes of the saved images
ScopeAll == <<"a", "l", "l", "_">>
ScopeIcv == <<"i", "c", "v", "_">>
ScopeTl == <<"t", "l", "_">>

\* the image named without its directory: it lands in the working directory
ImagePath_cwd(first_PATH, scope) ==
    scope \o EXP_TAG \o <<".", "p", "n", "g">>

\* first_PATH + '/' + scope + EXP_TAG + '.png'
ImagePath(first_PATH, scope) ==
    first_PATH \o <<"/">> \o scope \o EXP_TAG \o <<".", "p", "n", "g">>

\* the hard-coded batch
PATHS ==
    LET n11 == <<"1", "*", "1", "U+8DEF", "U+7F51", "/">>
        n16 == <<"1", "*", "6", "U+8DEF", "U+7F51", "/">>
        n34 == <<"3", "*", "4", "U+8DEF", "U+7F51", "/">>
        co == <<"C", "o", "_", "P", "P", "O">>
        ft == <<"f", "i", "x", "e", "d", "t", "i", "m", "e", "_", "c", "a", "v">>
        in == <<"I", "n", "_", "P", "P", "O">>
        hv == <<"R", "L", "_", "H", "V">>
    IN  << n11 \o co, n11 \o ft, n11 \o in, n11 \o hv,
           n16 \o co, n16 \o ft, n16 \o in, n16 \o hv,
           n34 \o co, n34 \o ft, n34 \o in, n34 \o hv >>

\* ------------------------------------------------------------ the log file
EpisodeCols ==
    {"episode_reward_max", "episode_reward_min", "episode_reward_mean", "training_iteration"}

CavCols ==
    {"policy_reward_max/cav", "policy_reward_min/cav", "policy_reward_mean/cav", "training_iteration"}

TlCols ==
    {"policy_reward_max/tl", "policy_reward_min/tl", "policy_reward_mean/tl", "training_iteration"}

AllCols == EpisodeCols \cup CavCols \cup TlCols

\* the column sets a progress.csv is drawn from: complete, complete with one
\* more column, one consumed column missing, episode statistics only, none
ColChoices ==
    {AllCols, AllCols \cup {"timesteps_total"}, EpisodeCols, {}}
        \cup {AllCols \ {c} : c \in AllCols}

NoFile == [exists |-> FALSE]

LogChoices ==
    {NoFile} \cup [exists : {TRUE}, cols : ColChoices, nrows : 0..MaxRows]

NoDF == [loaded |-> FALSE]

NoFig == [open |-> FALSE]

NoErr == [kind |-> "none"]

\* ------------------------------------------------------------ the file system
\* images found in the directories before the run: none, or stale all_ and
\* icv_ images in one of the directories
PreExisting(ps) ==
    {<<>>} \cup
    { [p \in {ImagePath(BasePath \o ps[k], ScopeAll), ImagePath(BasePath \o ps[k], ScopeIcv)}
            |-> [stale |-> TRUE]] : k \in 1..Len(ps) }

\* the PATH arguments of a direct call of PlotAll
PathAlphabet == {"P", "O", "o", "/"}

TestPaths ==
    UNION { [1..n -> PathAlphabet] : n \in 0..MaxPathLen }

\* the exception caught around each PlotAll call: the loop goes on
Raise_isolated(kind) ==
    /\ err' = [kind |-> kind, at |-> pc, call |-> i]
    /\ pc' = "loop"

\* ------------------------------------------------------------ exceptions
\* an uncaught exception: nothing in the script catches it, the interpreter
\* unwinds the loop and exits
Raise(kind) ==
    /\ err' = [kind |-> kind, at |-> pc, call |-> i]
    /\ pc' = "aborted"

\* ------------------------------------------------------------ shared steps
\* df = pd.read_csv(FILE_PATH)
read_csv(next) ==
    IF logfile.exists
    THEN /\ df' = [loaded |-> TRUE, cols |-> logfile.cols, nrows |-> logfile.nrows]
         /\ reads' = Append(reads, [call |-> i, path |-> FILE_PATH(dataPath)])
         /\ pc' = next
         /\ UNCHANGED err
    ELSE /\ Raise("FileNotFoundError")
         /\ UNCHANGED <<df, reads>>

\* max_r, min_r, r = df[...], df[...], df[...]; iteration = df["training_iteration"];
\* then the figure is drawn from r against iteration
select_and_plot(cols, ycol, ylabel, next) ==
    IF cols \subseteq df.cols
    THEN /\ fig' = [open |-> TRUE, x |-> "training_iteration", y |-> ycol,
                    ylabel |-> ylabel, points |-> df.nrows]
         /\ pc' = next
         /\ UNCHANGED err
    ELSE /\ Raise("KeyError")
         /\ UNCHANGED fig

\* fig.savefig(first_PATH + '/' + scope + EXP_TAG + '.png'): the file is created,
\* or replaced when it is already there; of the picture the file keeps which
\* curve it shows
savefig(scope) ==
    LET p == ImagePath(dataPath, scope)
    IN  /\ images' = [q \in DOMAIN images \cup {p} |->
                          IF q = p THEN [stale |-> FALSE, y |-> fig.y, ylabel |-> fig.ylabel]
                                   ELSE images[q]]
        /\ saves' = Append(saves, [call |-> i, path |-> p])

\* the marker mistaken for the algorithm's whole name
IsMultiPolicy_ppo(path) == In(<<"P", "P", "O">>, path)

\* the test of PlotAll
IsMultiPolicy(path) == In(<<"P", "O">>, path)

\* ------------------------------------------------------------ the batch loop
\* for PATH in PATHS: PlotAll(PATH); both branches of PlotAll start with
\* PlotbothRew_Inter(dataPath). The progress.csv of the directory is whatever
\* the file system holds for it.
PlotAll ==
    /\ pc = "loop"
    /\ i < Len(paths)
    /\ i' = i + 1
    /\ calls' = Append(calls, i + 1)
    /\ dataPath' = BasePath \o paths[i + 1]
    /\ \E f \in LogChoices : logfile' = f
    /\ pc' = "both_read"
    /\ UNCHANGED expVars
    /\ UNCHANGED <<paths, df, fig, images, saves, reads, err>>

LoopEnd ==
    /\ pc = "loop"
    /\ i = Len(paths)
    /\ pc' = "done"
    /\ UNCHANGED expVars
    /\ UNCHANGED <<paths, i, dataPath, logfile, df, fig, images, saves, reads, calls, err>>

\* ------------------------------------------------------ PlotbothRew_Inter
Both_read ==
    /\ pc = "both_read"
    /\ read_csv("both_cols")
    /\ UNCHANGED expVars
    /\ UNCHANGED <<paths, i, dataPath, logfile, fig, images, saves, calls>>

\* the overall plot asking for the per-role columns as well
Both_cols_all ==
    /\ pc = "both_cols"
    /\ select_and_plot(AllCols, "episode_reward_mean", "reward", "both_save")
    /\ UNCHANGED expVars
    /\ UNCHANGED <<paths, i, dataPath, logfile, df, images, saves, reads, calls>>

Both_cols ==
    /\ pc = "both_cols"
    /\ select_and_plot(EpisodeCols, "episode_reward_mean", "reward", "both_save")
    /\ UNCHANGED expVars
    /\ UNCHANGED <<paths, i, dataPath, logfile, df, images, saves, reads, calls>>

\* the save, and the return into PlotAll: the per-role plots follow when the
\* path has the marker, the next PATH otherwise
Both_save ==
    /\ pc = "both_save"
    /\ savefig(ScopeAll)
    /\ IF IsMultiPolicy(dataPath)
       THEN pc' = "role_read" /\ UNCHANGED <<df, fig>>
       ELSE pc' = "loop" /\ df' = NoDF /\ fig' = NoFig
    /\ UNCHANGED expVars
    /\ UNCHANGED <<paths, i, dataPath, logfile, reads, calls, err>>

\* ------------------------------------------------ PlotCav_LigthtRew_Inter
Role_read ==
    /\ pc = "role_read"
    /\ read_csv("role_cols_all")
    /\ UNCHANGED expVars
    /\ UNCHANGED <<paths, i, dataPath, logfile, fig, images, saves, calls>>

Role_cols_all ==
    /\ pc = "role_cols_all"
    /\ select_and_plot(EpisodeCols, "episode_reward_mean", "reward", "role_save_all")
    /\ UNCHANGED expVars
    /\ UNCHANGED <<paths, i, dataPath, logfile, df, images, saves, reads, calls>>

\* the per-role plot set leaving the overall image to PlotbothRew_Inter
Role_save_all_skip ==
    /\ pc = "role_save_all"
    /\ pc' = "role_cols_cav"
    /\ UNCHANGED expVars
    /\ UNCHANGED <<paths, i, dataPath, logfile, df, fig, images, saves, reads, calls, err>>

Role_save_all ==
    /\ pc = "role_save_all"
    /\ savefig(ScopeAll)
    /\ pc' = "role_cols_cav"
    /\ UNCHANGED expVars
    /\ UNCHANGED <<paths, i, dataPath, logfile, df, fig, reads, calls, err>>

Role_cols_cav ==
    /\ pc = "role_cols_cav"
    /\ select_and_plot(CavCols, "policy_reward_mean/cav", "icv_reward", "role_save_icv")
    /\ UNCHANGED expVars
    /\ UNCHANGED <<paths, i, dataPath, logfile, df, images, saves, reads, calls>>

Role_save_icv ==
    /\ pc = "role_save_icv"
    /\ savefig(ScopeIcv)
    /\ pc' = "role_cols_tl"
    /\ UNCHANGED expVars
    /\ UNCHANGED <<paths, i, dataPath, logfile, df, fig, reads, calls, err>>

Role_cols_tl ==
    /\ pc = "role_cols_tl"
    /\ select_and_plot(TlCols, "policy_reward_mean/tl", "tl_reward", "role_save_tl")
    /\ UNCHANGED expVars
    /\ UNCHANGED <<paths, i, dataPath, logfile, df, images, saves, reads, calls>>

Role_save_tl ==
    /\ pc = "role_save_tl"
    /\ savefig(ScopeTl)
    /\ pc' = "loop"
    /\ df' = NoDF
    /\ fig' = NoFig
    /\ UNCHANGED expVars
    /\ UNCHANGED <<paths, i, dataPath, logfile, reads, calls, err>>

\* ============================================ cavandlight_shixiong.py ====
HORIZON == 500
N_ROLLOUTS == 1

\* Python dict.update / d[k] = v on a dict held as a function
DictSet(d, k, v) == (k :> v) @@ d

\* str.startswith
startswith(s, prefix) ==
    /\ Len(prefix) <= Len(s)
    /\ SubSeq(s, 1, Len(prefix)) = prefix

\* the prefix test ignoring the case of the first letter
POLICY_MAPPING_FN_anycase(a) ==
    IF startswith(a, <<"c", "a", "v">>) \/ startswith(a, <<"C", "a", "v">>) THEN "cav" ELSE "tl"

\* lambda agent_id: 'cav' if agent_id.startswith('cav') else 'tl'
POLICY_MAPPING_FN(a) ==
    IF startswith(a, <<"c", "a", "v">>) THEN "cav" ELSE "tl"

ADDITIONAL_NET_PARAMS ==
    [grid_array |-> [row_num |-> n_rows, col_num |-> n_columns, inner_length |-> 500,
                     short_length |-> 500, long_length |-> 700,
                     cars_top |-> num_cars_top, cars_bot |-> num_cars_bot,
                     cars_left |-> num_cars_left, cars_right |-> num_cars_right],
     horizontal_lanes |-> 3,
     vertical_lanes |-> 3,
     speed_limit |-> [horizontal |-> 30, vertical |-> 30],
     traffic_lights |-> TRUE]

\* the keys of flow_params in the order sort_keys=True writes them
FlowKeys == <<"env", "env_name", "exp_tag", "initial", "net", "network", "sim", "simulator", "veh">>

\* json.dumps(flow_params, cls=FlowParamsEncoder, sort_keys=True, indent=4): the
\* key/value pairs in key order; a class is written by its name, any other
\* value by its fields
dumps(d) ==
    LET enc(k) == IF k \in {"env_name", "network"} THEN d[k].class ELSE d[k]
        keys == SelectSeq(FlowKeys, LAMBDA k : k \in DOMAIN d)
    IN  [n \in 1..Len(keys) |-> <<keys[n], enc(keys[n])>>]

\* the spaces a probe environment can report
SpaceChoices ==
    [observation_space_tl : {"Box(tl)"},
     action_space_tl : {"Discrete(2)"},
     observation_space_av : {"Box(tl)", "Box(av)"},
     action_space_av : {"Discrete(2)", "Box(accel)"}]

\* agent identifiers: every string over IdAlphabet of at most MaxIdLen characters
IdAlphabet == {"c", "a", "v", "C", "t", "l", "_"}

AllIds == UNION { [1..n -> IdAlphabet] : n \in 0..MaxIdLen }

\* "cav_3", "tl_main", "", "CAV_1", "human_0"
ExampleIds ==
    { <<"c", "a", "v", "_", "3">>, <<"t", "l", "_", "m", "a", "i", "n">>, <<>>,
      <<"C", "A", "V", "_", "1">>, <<"h", "u", "m", "a", "n", "_", "0">> }

\* the identifiers the environment reports to the trainer
agent_ids == IF id_source = "strings" THEN AllIds ELSE ExampleIds

\* ----------------------------------------------------------- module level
\* rows and columns exchanged
Tot_cars_swapped ==
    /\ epc = "tot_cars"
    /\ tot_cars' = (num_cars_left + num_cars_right) * n_rows
                       + (num_cars_top + num_cars_bot) * n_columns
    /\ epc' = "vehs_human"
    /\ UNCHANGED plotVars
    /\ UNCHANGED <<gridVars, vehs, net_params, flow_params, config, factory_params,
                   registered, test_env, trials, id_source, agent_id, assigned>>

\* tot_cars = (num_cars_left + num_cars_right) * n_columns + (num_cars_top + num_cars_bot) * n_rows
Tot_cars ==
    /\ epc = "tot_cars"
    /\ tot_cars' = (num_cars_left + num_cars_right) * n_columns
                       + (num_cars_top + num_cars_bot) * n_rows
    /\ epc' = "vehs_human"
    /\ UNCHANGED plotVars
    /\ UNCHANGED <<gridVars, vehs, net_params, flow_params, config, factory_params,
                   registered, test_env, trials, id_source, agent_id, assigned>>

\* vehs = VehicleParams(); vehs.add(veh_id='human', ..., num_vehicles=tot_cars-2, ...)
Vehs_human ==
    /\ epc = "vehs_human"
    /\ vehs' = Append(<<>>, [veh_id |-> "human", num_vehicles |-> tot_cars - 2,
                             routing_controller |-> "GridRecycleRouter",
                             acceleration_controller |-> "default", color |-> "white"])
    /\ epc' = "vehs_cav"
    /\ UNCHANGED plotVars
    /\ UNCHANGED <<gridVars, tot_cars, net_params, flow_params, config, factory_params,
                   registered, test_env, trials, id_source, agent_id, assigned>>

\* vehs.add(veh_id='cav', acceleration_controller=(RLController,{}), ..., num_vehicles=2, ...)
Vehs_cav ==
    /\ epc = "vehs_cav"
    /\ vehs' = Append(vehs, [veh_id |-> "cav", num_vehicles |-> 2,
                             routing_controller |-> "ExpTravelTimeRouter",
                             acceleration_controller |-> "RLController", color |-> "red"])
    /\ epc' = "inflows"
    /\ UNCHANGED plotVars
    /\ UNCHANGED <<gridVars, tot_cars, net_params, flow_params, config, factory_params,
                   registered, test_env, trials, id_source, agent_id, assigned>>

\* USE_INFLOWS: initial_config, net_params = inflow_methods.get_flow_params(col_num, row_num,
\* additional_net_params); the helper's result is kept as its arguments
Inflows ==
    /\ epc = "inflows"
    /\ net_params' = [col_num |-> n_columns, row_num |-> n_rows,
                      additional_params |-> ADDITIONAL_NET_PARAMS]
    /\ epc' = "flow_params"
    /\ UNCHANGED plotVars
    /\ UNCHANGED <<gridVars, tot_cars, vehs, flow_params, config, factory_params,
                   registered, test_env, trials, id_source, agent_id, assigned>>

\* flow_params = dict(exp_tag=..., env_name=..., ..., veh=vehs, initial=initial_config)
Flow_params ==
    /\ epc = "flow_params"
    /\ flow_params' =
           [exp_tag |-> <<"grid_0", n_rows, "x", n_columns, "multiagent">>,
            env_name |-> [class |-> "CustomSEUPressEnv"],
            network |-> [class |-> "SingleIntersectionNet"],
            simulator |-> "traci",
            sim |-> [restart_instance |-> TRUE, sim_step |-> "0.1", render |-> FALSE,
                     emission_path |-> "data", print_warnings |-> FALSE],
            env |-> [horizon |-> HORIZON, warmup_steps |-> 50, evaluate |-> FALSE,
                     additional_params |->
                         [target_velocity |-> 30, switch_time |-> "3.0", num_observed |-> 2,
                          discrete |-> TRUE, tl_type |-> "controlled", num_local_edges |-> 4,
                          num_local_lights |-> 4, max_accel |-> 3, max_decel |-> 3]],
            net |-> net_params,
            veh |-> vehs,
            initial |-> [col_num |-> n_columns, row_num |-> n_rows]]
    /\ epc' = "config"
    /\ UNCHANGED plotVars
    /\ UNCHANGED <<gridVars, tot_cars, vehs, net_params, config, factory_params,
                   registered, test_env, trials, id_source, agent_id, assigned>>

\* ------------------------------------------------------------- setup_exps
\* config = agent_cls._default_config.copy() and the scalar settings
Config ==
    /\ epc = "config"
    /\ config' = [num_gpus |-> 1, num_workers |-> 10,
                  train_batch_size |-> HORIZON * N_ROLLOUTS, gamma |-> "0.999",
                  model |-> [fcnet_hiddens |-> <<3, 3>>], use_gae |-> TRUE,
                  lambda |-> "0.97", kl_target |-> "0.02", num_sgd_iter |-> 10,
                  clip_actions |-> FALSE, horizon |-> HORIZON,
                  env_config |-> <<>>,
                  multiagent |-> [policies |-> <<>>, policy_mapping_fn |-> "None",
                                  policies_to_train |-> <<>>]]
    /\ epc' = "flow_json"
    /\ UNCHANGED plotVars
    /\ UNCHANGED <<gridVars, tot_cars, vehs, net_params, flow_params, factory_params,
                   registered, test_env, trials, id_source, agent_id, assigned>>

\* flow_json = json.dumps(flow_params, ...); config['env_config']['flow_params'] = flow_json;
\* config['env_config']['run'] = alg_run
Flow_json ==
    /\ epc = "flow_json"
    /\ config' = [config EXCEPT !.env_config =
                      DictSet(DictSet(@, "flow_params", dumps(flow_params)), "run", "PPO")]
    /\ epc' = "make_create_env"
    /\ UNCHANGED plotVars
    /\ UNCHANGED <<gridVars, tot_cars, vehs, net_params, flow_params, factory_params,
                   registered, test_env, trials, id_source, agent_id, assigned>>

\* the factory switching rendering on in the mapping it was handed
Make_create_env_inplace ==
    /\ epc = "make_create_env"
    /\ flow_params' = [flow_params EXCEPT !.sim.render = TRUE]
    /\ factory_params' = flow_params'
    /\ epc' = "register_env"
    /\ UNCHANGED plotVars
    /\ UNCHANGED <<gridVars, tot_cars, vehs, net_params, config,
                   registered, test_env, trials, id_source, agent_id, assigned>>

\* create_env, gym_name = make_create_env(params=flow_params, version=0)
Make_create_env ==
    /\ epc = "make_create_env"
    /\ factory_params' = flow_params
    /\ epc' = "register_env"
    /\ UNCHANGED plotVars
    /\ UNCHANGED <<gridVars, tot_cars, vehs, net_params, flow_params, config,
                   registered, test_env, trials, id_source, agent_id, assigned>>

\* register_env(gym_name, create_env)
Register_env ==
    /\ epc = "register_env"
    /\ registered' = registered \cup {<<factory_params.env_name.class, "v0">>}
    /\ epc' = "test_env"
    /\ UNCHANGED plotVars
    /\ UNCHANGED <<gridVars, tot_cars, vehs, net_params, flow_params, config, factory_params,
                   test_env, trials, id_source, agent_id, assigned>>

\* test_env = create_env(); the four spaces are read off the probe environment
Test_env ==
    /\ epc = "test_env"
    /\ \E sp \in SpaceChoices : test_env' = sp
    /\ epc' = "multiagent"
    /\ UNCHANGED plotVars
    /\ UNCHANGED <<gridVars, tot_cars, vehs, net_params, flow_params, config, factory_params,
                   registered, trials, id_source, agent_id, assigned>>

\* the two roles bound to each other's spaces
POLICY_GRAPHS_crossed ==
    [cav |-> <<"PPOTFPolicy", test_env.observation_space_tl, test_env.action_space_tl, <<>>>>,
     tl |-> <<"PPOTFPolicy", test_env.observation_space_av, test_env.action_space_av, <<>>>>]

POLICY_GRAPHS ==
    [cav |-> <<"PPOTFPolicy", test_env.observation_space_av, test_env.action_space_av, <<>>>>,
     tl |-> <<"PPOTFPolicy", test_env.observation_space_tl, test_env.action_space_tl, <<>>>>]

POLICY_TO_TRAIN == <<"cav", "tl">>

\* the three config['multiagent'].update(...) calls, and the return
Multiagent ==
    /\ epc = "multiagent"
    /\ config' = [config EXCEPT !.multiagent =
                      [policies |-> POLICY_GRAPHS,
                       policy_mapping_fn |-> "POLICY_MAPPING_FN",
                       policies_to_train |-> POLICY_TO_TRAIN]]
    /\ epc' = "run_experiments"
    /\ UNCHANGED plotVars
    /\ UNCHANGED <<gridVars, tot_cars, vehs, net_params, flow_params, factory_params,
                   registered, test_env, trials, id_source, agent_id, assigned>>

\* ------------------------------------------------------------- the launch
\* ray.init(...); trials = run_experiments({flow_params["exp_tag"]: {...}})
Run_experiments ==
    /\ epc = "run_experiments"
    /\ trials' = [name |-> flow_params.exp_tag, run |-> "PPO",
                  env |-> <<factory_params.env_name.class, "v0">>, config |-> config,
                  checkpoint_freq |-> 20, checkpoint_at_end |-> TRUE, max_failures |-> 999,
                  stop |-> [training_iteration |-> 1000]]
    /\ epc' = "training"
    /\ UNCHANGED plotVars
    /\ UNCHANGED <<gridVars, tot_cars, vehs, net_params, flow_params, config, factory_params,
                   registered, test_env, id_source, agent_id, assigned>>

\* the trainer asks for the policy of an agent the environment reports
Map_call ==
    /\ epc = "training"
    /\ \E a \in agent_ids : agent_id' = a
    /\ assigned' = "None"
    /\ epc' = "mapping"
    /\ UNCHANGED plotVars
    /\ UNCHANGED <<gridVars, tot_cars, vehs, net_params, flow_params, config, factory_params,
                   registered, test_env, trials, id_source>>

\* the rule of config['multiagent']['policy_mapping_fn'] is applied
Map_return ==
    /\ epc = "mapping"
    /\ trials.config.multiagent.policy_mapping_fn = "POLICY_MAPPING_FN"
    /\ assigned' = POLICY_MAPPING_FN(agent_id)
    /\ epc' = "mapped"
    /\ UNCHANGED plotVars
    /\ UNCHANGED <<gridVars, tot_cars, vehs, net_params, flow_params, config, factory_params,
                   registered, test_env, trials, id_source, agent_id>>

\* the trainer takes the answer and goes on
Map_done ==
    /\ epc = "mapped"
    /\ epc' = "training"
    /\ agent_id' = <<>>
    /\ assigned' = "None"
    /\ UNCHANGED plotVars
    /\ UNCHANGED <<gridVars, tot_cars, vehs, net_params, flow_params, config, factory_params,
                   registered, test_env, trials, id_source>>

\* ------------------------------------------------------------------ Init
PlotInitCommon ==
    /\ i = 0
    /\ dataPath = <<>>
    /\ logfile = NoFile
    /\ df = NoDF
    /\ fig = NoFig
    /\ saves = <<>>
    /\ reads = <<>>
    /\ calls = <<>>
    /\ err = NoErr

\* plot_reward.py as it is run: the loop over PATHS
PlotInit ==
    /\ paths = PATHS
    /\ pc = "loop"
    /\ images \in PreExisting(paths)
    /\ PlotInitCommon

\* the loop, or one call PlotAll(PATH) with any PATH
PlotAllInit ==
    /\ paths \in {PATHS} \cup {<<p>> : p \in TestPaths}
    /\ pc = "loop"
    /\ images \in PreExisting(paths)
    /\ PlotInitCommon

\* plot_reward.py is not the script being run
PlotIdle ==
    /\ paths = <<>>
    /\ pc = "idle"
    /\ images = <<>>
    /\ PlotInitCommon

ExpInitCommon ==
    /\ tot_cars = 0
    /\ vehs = <<>>
    /\ net_params = <<>>
    /\ flow_params = <<>>
    /\ config = <<>>
    /\ factory_params = <<>>
    /\ registered = {}
    /\ test_env = <<>>
    /\ trials = <<>>
    /\ agent_id = <<>>
    /\ assigned = "None"

\* cavandlight_shixiong.py as it is run: the 3 x 4 grid with one car per edge
ExpInit ==
    /\ n_rows = 3
    /\ n_columns = 4
    /\ num_cars_left = 1
    /\ num_cars_right = 1
    /\ num_cars_top = 1
    /\ num_cars_bot = 1
    /\ epc = "tot_cars"
    /\ id_source = "strings"
    /\ ExpInitCommon

\* the same script with other values of its grid constants
GridInit ==
    /\ n_rows \in (1..MaxGrid) \cup {3}
    /\ n_columns \in (1..MaxGrid) \cup {4}
    /\ num_cars_left \in 0..MaxCars
    /\ num_cars_right \in 0..MaxCars
    /\ num_cars_top \in 0..MaxCars
    /\ num_cars_bot \in 0..MaxCars
    /\ epc = "tot_cars"
    /\ id_source = "examples"
    /\ ExpInitCommon

\* cavandlight_shixiong.py is not the script being run
ExpIdle ==
    /\ n_rows = 3
    /\ n_columns = 4
    /\ num_cars_left = 1
    /\ num_cars_right = 1
    /\ num_cars_top = 1
    /\ num_cars_bot = 1
    /\ epc = "idle"
    /\ id_source = "examples"
    /\ ExpInitCommon

\* one of the two scripts is run
Init ==
    \/ PlotInit /\ ExpIdle
    \/ ExpInit /\ PlotIdle

PlotNext ==
    \/ PlotAll
    \/ LoopEnd
    \/ Both_read
    \/ Both_cols
    \/ Both_save
    \/ Role_read
    \/ Role_cols_all
    \/ Role_save_all
    \/ Role_cols_cav
    \/ Role_save_icv
    \/ Role_cols_tl
    \/ Role_save_tl

ExpNext ==
    \/ Tot_cars
    \/ Vehs_human
    \/ Vehs_cav
    \/ Inflows
    \/ Flow_params
    \/ Config
    \/ Flow_json
    \/ Make_create_env
    \/ Register_env
    \/ Test_env
    \/ Multiagent
    \/ Run_experiments
    \/ Map_call
    \/ Map_return
    \/ Map_done

Next == PlotNext \/ ExpNext

\* the two scripts as they are written
Spec == Init /\ [][Next]_vars

\* PlotAll on any PATH
InitPlotAll == PlotAllInit /\ ExpIdle

SpecPlotAll == InitPlotAll /\ [][PlotNext]_vars

\* the experiment script over other grids
InitGrid == GridInit /\ PlotIdle

SpecGrid == InitGrid /\ [][ExpNext]_vars

\* ================================================================ claims
\* the index of the last "/" of a path, 0 when it has none
LastSlash(p) ==
    LET at == {k \in 1..Len(p) : p[k] = "/"}
    IN  IF at = {} THEN 0 ELSE CHOOSE k \in at : \A m \in at : m <= k

\* the directory a path lies in, and its name in that directory
Dirname(p) == SubSeq(p, 1, LastSlash(p) - 1)

Basename(p) == SubSeq(p, LastSlash(p) + 1, Len(p))

\* the path has a "P" directly followed by an "O"
Marked(p) == \E k \in 1..(Len(p) - 1) : p[k] = "P" /\ p[k + 1] = "O"

\* the k-th PlotAll call has returned
Returned(k) == k < i \/ (k = i /\ pc \in {"loop", "done"})

\* the save operations of the k-th call, in order, and the files they wrote
SavesOf(k) == SelectSeq(saves, LAMBDA s : s.call = k)

ProducedBy(k) == {saves[n].path : n \in {m \in 1..Len(saves) : saves[m].call = k}}

ImageNames ==
    { <<"a", "l", "l", "_", "f", "i", "x", "e", "d", "_", "t", "i", "m", "e", "_", "p", "p", "o",
        ".", "p", "n", "g">>,
      <<"i", "c", "v", "_", "f", "i", "x", "e", "d", "_", "t", "i", "m", "e", "_", "p", "p", "o",
        ".", "p", "n", "g">>,
      <<"t", "l", "_", "f", "i", "x", "e", "d", "_", "t", "i", "m", "e", "_", "p", "p", "o",
        ".", "p", "n", "g">> }

\* C1: a PlotAll call that returns has written exactly the three images all_,
\* icv_, tl_ into its directory when the PATH it was handed contains "PO", and
\* exactly the one image all_ otherwise; these are the directory's only fresh
\* images. In the hard-coded batch the odd entries (Co_PPO, In_PPO) get three
\* images and the even ones (fixedtime_cav, RL_HV) one.
C1_ImagesPerDirectory ==
    \A k \in 1..Len(paths) :
        Returned(k) =>
            LET dir == BasePath \o paths[k]
                made == ProducedBy(k)
            IN  /\ made = IF Marked(paths[k])
                          THEN {ImagePath(dir, sc) : sc \in {ScopeAll, ScopeIcv, ScopeTl}}
                          ELSE {ImagePath(dir, ScopeAll)}
                /\ Cardinality(made) = IF Marked(paths[k]) THEN 3 ELSE 1
                /\ {p \in DOMAIN images : ~images[p].stale /\ Dirname(p) = dir} = made
                /\ paths = PATHS => Cardinality(made) = IF k % 2 = 1 THEN 3 ELSE 1

C1_Witness ==
    /\ paths = << <<"o", "P", "O">> >>
    /\ pc = "done"
    /\ Cardinality(ProducedBy(1)) = 3

\* C4: the directories are taken strictly in list order, each once; an error
\* in directory i ends the run there: it is the last directory touched, every
\* read and save belongs to a directory up to i, and the run ends either done
\* with every directory visited or aborted at the first error.
C4_AbortsAtFirstError ==
    /\ calls = [k \in 1..i |-> k]
    /\ \A n \in 1..Len(reads) :
           /\ reads[n].call \in 1..i
           /\ reads[n].path = FILE_PATH(BasePath \o paths[reads[n].call])
           /\ n > 1 => reads[n - 1].call <= reads[n].call
    /\ \A n \in 1..Len(saves) :
           /\ saves[n].call \in 1..i
           /\ n > 1 => saves[n - 1].call <= saves[n].call
    /\ err.kind # "none" =>
           /\ pc = "aborted"
           /\ err.kind \in {"FileNotFoundError", "KeyError"}
           /\ err.call = i
    /\ pc = "aborted" => err.kind # "none"
    /\ pc = "done" => i = Len(paths) /\ err.kind = "none"

C4_Witness ==
    /\ pc = "aborted"
    /\ err.kind = "KeyError"
    /\ err.call = 5
    /\ Len(saves) > 0

\* C5: every image is saved in the directory of the progress.csv read by the
\* same call, under one of the names all_/icv_/tl_ + fixed_time_ppo + .png; the
\* file system holds nothing the run wrote besides these; a file already there
\* is replaced, and no save ever fails.
C5_ImagesBesideLog ==
    /\ \A n \in 1..Len(saves) :
           /\ \E m \in 1..Len(reads) :
                  /\ reads[m].call = saves[n].call
                  /\ Basename(reads[m].path) =
                         <<"p", "r", "o", "g", "r", "e", "s", "s", ".", "c", "s", "v">>
                  /\ Dirname(reads[m].path) = Dirname(saves[n].path)
           /\ Basename(saves[n].path) \in ImageNames
           /\ saves[n].path \in DOMAIN images
           /\ ~images[saves[n].path].stale
    /\ \A p \in DOMAIN images :
           images[p].stale \/ \E n \in 1..Len(saves) : saves[n].path = p
    /\ err.kind # "none" =>
           err.at \notin {"both_save", "role_save_all", "role_save_icv", "role_save_tl"}

\* a stale all_ image has been replaced while the stale icv_ image beside it stays
C5_Witness ==
    \E k \in 1..Len(paths) :
        LET dir == BasePath \o paths[k]
        IN  /\ ImagePath(dir, ScopeIcv) \in DOMAIN images
            /\ images[ImagePath(dir, ScopeIcv)].stale
            /\ ImagePath(dir, ScopeAll) \in DOMAIN images
            /\ ~images[ImagePath(dir, ScopeAll)].stale

\* C6: in a directory without the marker, a log holding the four episode
\* columns, with any number of rows, never fails and gives exactly one image
\* by one save; a log missing one of them (or no log) never gets to a save: the
\* call fails with nothing written for the directory.
C6_NonMultiPolicy ==
    /\ \A k \in 1..Len(paths) :
           (Returned(k) /\ ~Marked(paths[k])) =>
               Len(SavesOf(k)) = 1 /\ Cardinality(ProducedBy(k)) = 1
    /\ (i >= 1 /\ ~Marked(paths[i])) =>
           IF logfile.exists /\ EpisodeCols \subseteq logfile.cols
           THEN err.kind = "none"
           ELSE /\ pc \in {"both_read", "both_cols", "aborted"}
                /\ SavesOf(i) = <<>>
                /\ pc = "aborted" =>
                       err.kind = IF logfile.exists THEN "KeyError" ELSE "FileNotFoundError"

\* an empty log with exactly the four columns was plotted
C6_Witness ==
    /\ i = 2
    /\ pc = "loop"
    /\ logfile.exists
    /\ logfile.cols = EpisodeCols
    /\ logfile.nrows = 0
    /\ Len(SavesOf(2)) = 1

\* C10: a marked directory that goes through is saved into four times for
\* three files (all_, all_, icv_, tl_). When its log has the episode columns
\* and fails on a cav column, all_ has been saved (twice); when it fails on a tl
\* column, all_ and icv_ have been saved. Whatever was saved, in this directory
\* or an earlier one, is still there after the failure.
C10_PartialOutput ==
    /\ \A k \in 1..Len(paths) :
           (Returned(k) /\ Marked(paths[k])) =>
               LET dir == BasePath \o paths[k]
               IN  /\ [n \in 1..Len(SavesOf(k)) |-> SavesOf(k)[n].path] =
                          <<ImagePath(dir, ScopeAll), ImagePath(dir, ScopeAll),
                            ImagePath(dir, ScopeIcv), ImagePath(dir, ScopeTl)>>
                   /\ Cardinality(ProducedBy(k)) = 3
    /\ (pc = "aborted" /\ Marked(paths[i]) /\ logfile.exists
            /\ EpisodeCols \subseteq logfile.cols) =>
           LET dir == BasePath \o paths[i]
               done == [n \in 1..Len(SavesOf(i)) |-> SavesOf(i)[n].path]
           IN  /\ err.kind = "KeyError"
               /\ IF CavCols \subseteq logfile.cols
                  THEN /\ err.at = "role_cols_tl"
                       /\ done = <<ImagePath(dir, ScopeAll), ImagePath(dir, ScopeAll),
                                   ImagePath(dir, ScopeIcv)>>
                  ELSE /\ err.at = "role_cols_cav"
                       /\ done = <<ImagePath(dir, ScopeAll), ImagePath(dir, ScopeAll)>>
    /\ \A n \in 1..Len(saves) :
           saves[n].path \in DOMAIN images /\ ~images[saves[n].path].stale

\* the third directory (In_PPO) failed on a tl column after two went through
C10_Witness ==
    /\ pc = "aborted"
    /\ i = 3
    /\ err.at = "role_cols_tl"
    /\ Len(SavesOf(3)) = 3
    /\ Len(SavesOf(1)) = 4

\* ------------------------------------------------------------------------
\* the identifier begins with the three characters c, a, v
CavPrefixed(a) == Len(a) >= 3 /\ a[1] = "c" /\ a[2] = "a" /\ a[3] = "v"

TlPrefixed(a) == Len(a) >= 2 /\ a[1] = "t" /\ a[2] = "l"

\* C2: the rule answers every identifier string, with cav exactly when the
\* identifier begins with "cav" and with tl otherwise; no identifier stops it.
C2_MappingRule ==
    /\ epc = "mapping" => ENABLED Map_return
    /\ epc = "mapped" =>
           /\ assigned \in {"cav", "tl"}
           /\ assigned = "cav" <=> CavPrefixed(agent_id)

C2_Witness ==
    \/ epc = "mapped" /\ agent_id = <<"c", "a", "v", "_">> /\ assigned = "cav"
           /\ assigned # "tl"

\* C7: an identifier that begins with neither "cav" nor "tl" is signalled as
\* a configuration error instead of being given a policy.
C7_UnmatchedSignalled ==
    (epc = "mapped" /\ ~CavPrefixed(agent_id) /\ ~TlPrefixed(agent_id)) =>
        assigned \notin {"cav", "tl"}

\* C3: once both vehicle types are added, the human count plus the cav count
\* is (left + right) * columns + (top + bottom) * rows, the cav count is 2, and
\* cav is the one type under the learning controller.
C3_VehiclePopulation ==
    Len(vehs) = 2 =>
        /\ vehs[1].veh_id = "human"
        /\ vehs[2].veh_id = "cav"
        /\ vehs[1].num_vehicles + vehs[2].num_vehicles =
               (num_cars_left + num_cars_right) * n_columns
                   + (num_cars_top + num_cars_bot) * n_rows
        /\ vehs[2].num_vehicles = 2
        /\ {n \in 1..2 : vehs[n].acceleration_controller = "RLController"} = {2}
        /\ epc \in {"config", "training"} => flow_params.veh = vehs

\* a 1 x 2 grid with unequal edge counts
C3_Witness ==
    /\ Len(vehs) = 2
    /\ n_rows = 1
    /\ n_columns = 2
    /\ num_cars_left + num_cars_right = 1
    /\ num_cars_top + num_cars_bot = 2

\* the positions of the script from which the multi-agent configuration is complete
AfterSetup == {"run_experiments", "training", "mapping", "mapped"}

\* C8: in the returned configuration cav is bound to the probe environment's
\* av spaces and tl to its tl spaces, both are to be trained, and whatever role
\* the mapping rule gives is a key of policies and is to be trained.
C8_PolicyBinding ==
    epc \in AfterSetup =>
        LET m == config.multiagent
            trained == {m.policies_to_train[n] : n \in 1..Len(m.policies_to_train)}
        IN  /\ DOMAIN m.policies = {"cav", "tl"}
            /\ m.policies.cav[2] = test_env.observation_space_av
            /\ m.policies.cav[3] = test_env.action_space_av
            /\ m.policies.tl[2] = test_env.observation_space_tl
            /\ m.policies.tl[3] = test_env.action_space_tl
            /\ trained = {"cav", "tl"}
            /\ m.policy_mapping_fn = "POLICY_MAPPING_FN"
            /\ epc = "mapped" => assigned \in DOMAIN m.policies /\ assigned \in trained

\* launched with av spaces that differ from the tl spaces
C8_Witness ==
    /\ epc = "mapped"
    /\ assigned = "tl"
    /\ test_env.observation_space_av # test_env.observation_space_tl
    /\ test_env.action_space_av # test_env.action_space_tl

\* the positions of the script after flow_params is built
AfterFlowParams ==
    {"config", "flow_json", "make_create_env", "register_env", "test_env", "multiagent"}
        \cup AfterSetup

\* what holds of the stored copies of flow_params
C9_Copies ==
    /\ epc \in {"make_create_env", "register_env", "test_env", "multiagent"} \cup AfterSetup =>
           config.env_config["flow_params"] = dumps(flow_params)
    /\ epc \in {"register_env", "test_env", "multiagent"} \cup AfterSetup =>
           factory_params = flow_params
    /\ epc \in {"training", "mapping", "mapped"} =>
           /\ trials.config = config
           /\ trials.config.env_config["flow_params"] = dumps(flow_params)
           /\ trials.config.multiagent.policy_mapping_fn = "POLICY_MAPPING_FN"
           /\ DOMAIN trials.config.multiagent.policies = {"cav", "tl"}

====
